---- MODULE Spec2Model ----
(***************************************************************************)
(* The local development service registry of wrangler (dev-registry):      *)
(* startWorkerRegistry / stopWorkerRegistry, the four HTTP endpoints of    *)
(* the registry server, and the client operations registerWorker,          *)
(* unregisterWorker, getRegisteredWorkers and getBoundRegisteredWorkers.   *)
(*                                                                         *)
(* Several wrangler processes share one loopback port.  Each process has   *)
(* its own module-level `server` and `terminator`; the registry mapping    *)
(* `workers` lives in the closure of the server a process created.         *)
(***************************************************************************)
EXTENDS Integers, Sequences, FiniteSets, TLC

\* ------------------------------------------------------------------ bounds
NumProcs == 2          \* wrangler processes sharing the machine
MaxSegs == 2           \* a worker name has at most MaxSegs "/"-separated parts
MaxTimes == 3          \* retry is given `times` of at most MaxTimes

Procs == 1..NumProcs

\* ------------------------------------------------------------- data model
Undefined == "undefined"

\* A name is the string the caller passes; it is represented by the parts
\* name.split("/") yields, so "" is <<"">>, "a" is <<"a">>, "a/b" is
\* <<"a","b">> and "a/" is <<"a","">>.
Segments == {"", "a", "b", "c"}
Names == UNION {[1..k -> Segments] : k \in 1..MaxSegs}
NoName == <<>>
Keys == Segments \ {""}

\* WorkerDefinition, restricted to two of its fields.
Fields == {"port", "mode"}
WorkerDefinition == [port : {Undefined, "8787"}, mode : {"local", "remote"}]
NoDef == [f \in {} |-> ""]

\* WorkerRegistry = Record<string, WorkerDefinition>
EmptyRegistry == [k \in {} |-> NoDef]

\* JSON.stringify(definition): a property whose value is undefined is left
\* out of the text.  The text is represented by the object it denotes.
JSONstringify(d) == [f \in {g \in DOMAIN d : d[g] # Undefined} |-> d[f]]

\* The text of a request body: `json` tells whether it parses as a JSON
\* object, `value` the object it denotes when it does.
Text(o) == [json |-> TRUE, value |-> o]
Malformed == [json |-> FALSE, value |-> NoDef]
NoBody == Text(NoDef)

\* Reading a property of an object: a missing property reads as undefined.
Field(d, f) == IF f \in DOMAIN d THEN d[f] ELSE Undefined

SameFields(d, e) == \A f \in Fields : Field(d, f) = Field(e, f)

\* --------------------------------------------------------------- variables
VARIABLES
    server,      \* server[p]: p's module-level `server` is non-null
    terminator,  \* terminator[p]: "undefined" or what its server has been through
    workers,     \* workers[p]: the `workers` mapping in the closure of p's server
    sock,        \* sock[p]: what p has bound to the registry port
    pc,          \* pc[p]: where p's current call stands
    call,        \* call[p]: the call p is running
    avail,       \* avail[p]: what isPortAvailable() resolved to
    last,        \* the call that settled most recently, and how
    trail,       \* history: the calls that have run undisturbed (see Track)
    rt           \* a call of retry: its arguments, locals and position

prog == <<server, terminator, workers, sock, pc, call, avail, last>>
vars == <<prog, trail, rt>>

NoCall == [op |-> "none", name |-> NoName, def |-> NoDef]

\* What a call gave its caller: nothing, undefined, a registry object, or
\* the Response of the fetch.
NoVal == [kind |-> "none", reg |-> EmptyRegistry]
UndefinedVal == [kind |-> "undefined", reg |-> EmptyRegistry]
RegistryVal(r) == [kind |-> "registry", reg |-> r]
ResponseVal == [kind |-> "response", reg |-> EmptyRegistry]

\* A declared set of binding targets; `services` and `durableObjects` may
\* be undefined.
NoBindings == [defined |-> FALSE, names |-> {}]

NoLast ==
    [proc |-> 0, op |-> "none", name |-> NoName, def |-> NoDef,
     services |-> NoBindings, durableObjects |-> NoBindings,
     outcome |-> "none", err |-> "none", log |-> "none", status |-> 0,
     val |-> NoVal, before |-> 0]

\* History of the calls in progress, kept for stating properties of
\* "two calls in succession" and "calls running concurrently"; no action of
\* the program reads it.  An episode is a run of startWorkerRegistry calls,
\* or of one or two registerWorker calls of one name, during which nothing
\* else has happened:
\*   procs  the processes whose calls make it up ({}: no episode),
\*   op     the function called,
\*   free   no registry was listening when its first call began,
\*   done   calls of it that had returned when its latest call began,
\*   conc   one of its calls began while another was still running,
\*   owner  the process whose stopWorkerRegistry, called while it owned the
\*          listening server, came right before its first call (0: none),
\*   held   the number of entries the registry it stopped held.
NoTrail ==
    [procs |-> {}, op |-> "none", free |-> FALSE, done |-> 0, conc |-> FALSE,
     owner |-> 0, held |-> 0]

\* ---------------------------------------------------------------- retry
\* What fn settles with: a value it resolves to or an error it rejects with.
Values == {"v1", "v2"}
Errors == {"e1", "e2"}

\* exitCondition: undefined, or a predicate, given by the errors it is true of.
ExitConditions ==
    {[defined |-> FALSE, of |-> {}]}
    \cup {[defined |-> TRUE, of |-> es] : es \in SUBSET Errors}

\* A call retry({times, exitCondition}, fn) about to test its loop
\* condition for the first time: `times` and `error` are the code's
\* variables, pc is "while" (at the loop test), "break" (left the loop by
\* break) or "done", result is what the call settled with.  `given` (the
\* times passed in) and `seen` (what each invocation of fn settled with, in
\* order) are history.
RetryCall(t, x) ==
    [given |-> t, times |-> t, exitCondition |-> x, error |-> "null",
     pc |-> "while", seen |-> <<>>,
     result |-> [kind |-> "none", value |-> "null"]]

NoRetry ==
    [RetryCall(0, [defined |-> FALSE, of |-> {}]) EXCEPT !.pc = "done"]

InitRegistry ==
    /\ server = [p \in Procs |-> FALSE]
    /\ terminator = [p \in Procs |-> "undefined"]
    /\ workers = [p \in Procs |-> EmptyRegistry]
    /\ sock = [p \in Procs |-> "none"]
    /\ pc = [p \in Procs |-> "idle"]
    /\ call = [p \in Procs |-> NoCall]
    /\ avail = [p \in Procs |-> FALSE]
    /\ last = NoLast
    /\ trail = NoTrail

Init == InitRegistry /\ rt = NoRetry

\* ---------------------------------------------------------------- the port
\* One TCP port: a bind succeeds only while nothing is bound to it.
PortFree == \A q \in Procs : sock[q] = "none"

Listeners == {q \in Procs : sock[q] = "server"}

\* The mapping of the registry that is listening (empty when none is).
LiveRegistry ==
    IF Listeners = {} THEN EmptyRegistry
    ELSE workers[CHOOSE q \in Listeners : TRUE]

\* How a call ends: outcome is "returned", "threw" (to the caller) or
\* "crashed" (thrown outside any caller), err the code of the error it met
\* ("none": no error, "": an error without a cause.code), log the severity
\* it logged at, status the HTTP status of the response its fetch received
\* (0: none), val what it returned.
Ending(outcome, err, log, status, val) ==
    [outcome |-> outcome, err |-> err, log |-> log, status |-> status,
     val |-> val]

\* The record of a settled call c of process p; before is the number of
\* entries the listening registry held when the call settled it.
Settled(p, c, e) ==
    [proc |-> p, op |-> c.op, name |-> c.name, def |-> c.def,
     services |-> NoBindings, durableObjects |-> NoBindings,
     outcome |-> e.outcome, err |-> e.err, log |-> e.log,
     status |-> e.status, val |-> e.val,
     before |-> Cardinality(DOMAIN LiveRegistry)]

\* ------------------------------------------------------ startWorkerRegistry
\* A call of startWorkerRegistry begins: isPortAvailable() is awaited.
StartBegin(p) ==
    /\ pc[p] = "idle"
    /\ pc' = [pc EXCEPT ![p] = "probe"]
    /\ call' = [call EXCEPT ![p] = [NoCall EXCEPT !.op = "start"]]
    /\ last' = NoLast
    /\ UNCHANGED <<server, terminator, workers, sock, avail>>

\* The call settles: a bare startWorkerRegistry returns to its caller, a
\* registerWorker goes on to its fetch.
AfterStart(p) ==
    IF call[p].op = "register"
    THEN /\ pc' = [pc EXCEPT ![p] = "fetch"]
         /\ UNCHANGED <<call, last>>
    ELSE /\ pc' = [pc EXCEPT ![p] = "idle"]
         /\ call' = [call EXCEPT ![p] = NoCall]
         /\ last' = Settled(p, call[p], Ending("returned", "none", "none", 0, UndefinedVal))

\* The call rejects with error err, thrown to its caller.
Throws(p, err) ==
    /\ pc' = [pc EXCEPT ![p] = "idle"]
    /\ call' = [call EXCEPT ![p] = NoCall]
    /\ last' = Settled(p, call[p], Ending("threw", err, "none", 0, NoVal))

\* isPortAvailable: netServer.listen(DEV_REGISTRY_PORT).  `err` is the
\* error of the bind: "none" lets the port decide (EADDRINUSE when taken).
ProbeListen(p, err) ==
    /\ pc[p] = "probe"
    /\ IF err # "none"
       THEN \* once("error"): reject(err)
            /\ Throws(p, err)
            /\ UNCHANGED <<sock, avail>>
       ELSE IF PortFree
       THEN /\ sock' = [sock EXCEPT ![p] = "probe"]
            /\ pc' = [pc EXCEPT ![p] = "probing"]
            /\ UNCHANGED <<avail, call, last>>
       ELSE \* once("error"), EADDRINUSE: resolve(false)
            /\ avail' = [avail EXCEPT ![p] = FALSE]
            /\ pc' = [pc EXCEPT ![p] = "probed"]
            /\ UNCHANGED <<sock, call, last>>
    /\ UNCHANGED <<server, terminator, workers>>

\* isPortAvailable: once("listening"): netServer.close(); resolve(true)
ProbeListening(p) ==
    /\ pc[p] = "probing"
    /\ sock' = [sock EXCEPT ![p] = "none"]
    /\ avail' = [avail EXCEPT ![p] = TRUE]
    /\ pc' = [pc EXCEPT ![p] = "probed"]
    /\ UNCHANGED <<server, terminator, workers, call, last>>

\* if ((await isPortAvailable()) && !server) { ... server.listen(...) }
StartCheck(p) ==
    /\ pc[p] = "probed"
    /\ IF avail[p] /\ ~server[p]
       THEN /\ workers' = [workers EXCEPT ![p] = EmptyRegistry]
            /\ server' = [server EXCEPT ![p] = TRUE]
            /\ terminator' = [terminator EXCEPT ![p] = "created"]
            /\ pc' = [pc EXCEPT ![p] = "listen"]
            /\ UNCHANGED <<call, last>>
       ELSE /\ AfterStart(p)
            /\ UNCHANGED <<server, terminator, workers>>
    /\ UNCHANGED <<sock, avail>>

\* A process ends (exit, kill, uncaught exception): its sockets close and
\* its module state is gone; a process started later under the same
\* identity begins from the initial module state.
ProcessGone(p) ==
    /\ server' = [server EXCEPT ![p] = FALSE]
    /\ terminator' = [terminator EXCEPT ![p] = "undefined"]
    /\ workers' = [workers EXCEPT ![p] = EmptyRegistry]
    /\ sock' = [sock EXCEPT ![p] = "none"]
    /\ pc' = [pc EXCEPT ![p] = "idle"]
    /\ call' = [call EXCEPT ![p] = NoCall]
    /\ avail' = [avail EXCEPT ![p] = FALSE]

\* The bind of server.listen(DEV_REGISTRY_PORT), which Node runs on the next
\* tick, ahead of any later I/O of the process.  A failed bind emits
\* "error" and no "close": the handle stays as it is.
ServerListen(p, err) ==
    /\ pc[p] = "listen"
    /\ IF err # "none"
       THEN \* server.once("error"): throw err, inside the event handler
            /\ ProcessGone(p)
            /\ last' = Settled(p, call[p],
                               Ending("crashed", err, "none", 0, NoVal))
       ELSE /\ IF PortFree
               THEN /\ sock' = [sock EXCEPT ![p] = "server"]
                    /\ terminator' = [terminator EXCEPT ![p] = "listening"]
               ELSE \* EADDRINUSE: the handler swallows it
                    UNCHANGED <<sock, terminator>>
            /\ AfterStart(p)
            /\ UNCHANGED <<server, workers, avail>>

\* ------------------------------------------------------- stopWorkerRegistry
\* Mutant of StopWorkerRegistry: the listener is left open.
StopKeepsListening(p) ==
    /\ pc[p] = "idle"
    /\ server' = [server EXCEPT ![p] = FALSE]
    /\ last' = Settled(p, [NoCall EXCEPT !.op = "stop"],
                       Ending("returned", "none", "none", 0, UndefinedVal))
    /\ UNCHANGED <<terminator, workers, sock, pc, call, avail>>

\* Mutant of StopWorkerRegistry: the handle is left as it is.
StopKeepsHandle(p) ==
    /\ pc[p] = "idle"
    /\ sock' = [sock EXCEPT ![p] = "none"]
    /\ terminator' = [terminator EXCEPT ![p] =
            IF @ = "undefined" THEN "undefined" ELSE "terminated"]
    /\ last' = Settled(p, [NoCall EXCEPT !.op = "stop"],
                       Ending("returned", "none", "none", 0, UndefinedVal))
    /\ UNCHANGED <<server, workers, pc, call, avail>>

\* await terminator?.terminate(); server = null
\* terminate() closes the server; closing emits "close", whose handler sets
\* server to null.  Closing a server that never listened gives the
\* terminator an error, which terminate() rejects with, and a terminator
\* asked again gives the same promise again.  The mapping in the closure of
\* the closed server is not touched.
StopWorkerRegistry(p) ==
    /\ pc[p] = "idle"
    /\ server' = [server EXCEPT ![p] = FALSE]
    /\ sock' = [sock EXCEPT ![p] = "none"]
    /\ terminator' = [terminator EXCEPT ![p] =
            CASE @ = "undefined" -> "undefined"
              [] @ \in {"listening", "terminated"} -> "terminated"
              [] OTHER -> "failed"]
    /\ last' = Settled(p, [NoCall EXCEPT !.op = "stop"],
                       IF terminator[p] \in {"created", "failed"}
                       THEN Ending("threw", "ERR_SERVER_NOT_RUNNING", "none",
                                   0, NoVal)
                       ELSE Ending("returned", "none", "none", 0,
                                   UndefinedVal))
    /\ UNCHANGED <<workers, pc, call, avail>>

\* Mutant of Exit: the entries of the listening registry go with the
\* process, whoever owns the registry.
ExitDropsRegistry(p) ==
    /\ server[p] \/ sock[p] # "none" \/ pc[p] # "idle" \/ terminator[p] # "undefined"
    /\ server' = [server EXCEPT ![p] = FALSE]
    /\ terminator' = [terminator EXCEPT ![p] = "undefined"]
    /\ workers' = [q \in Procs |-> EmptyRegistry]
    /\ sock' = [sock EXCEPT ![p] = "none"]
    /\ pc' = [pc EXCEPT ![p] = "idle"]
    /\ call' = [call EXCEPT ![p] = NoCall]
    /\ avail' = [avail EXCEPT ![p] = FALSE]
    /\ last' = NoLast

\* The process ends without unregistering or stopping anything.
Exit(p) ==
    /\ server[p] \/ sock[p] # "none" \/ pc[p] # "idle" \/ terminator[p] # "undefined"
    /\ ProcessGone(p)
    /\ last' = NoLast

\* ----------------------------------------------------- the HTTP endpoints
\* The path of `${DEV_REGISTRY_HOST}/workers/${name}`, split at "/".
WorkerPath(name) == <<"workers">> \o name
WorkersPath == <<"workers">>

\* Express matches a route up to one trailing "/"; :workerId is one
\* non-empty part.  Routes are tried in the order they were installed.
Route(method, path) ==
    LET pth == IF Len(path) > 1 /\ path[Len(path)] = ""
               THEN SubSeq(path, 1, Len(path) - 1) ELSE path
        item == Len(pth) = 2 /\ pth[1] = "workers" /\ pth[2] # ""
    IN  CASE method = "GET" /\ pth = WorkersPath ->
                [handler |-> "GET /workers", workerId |-> ""]
          [] method = "POST" /\ item ->
                [handler |-> "POST /workers/:workerId", workerId |-> pth[2]]
          [] method = "DELETE" /\ item ->
                [handler |-> "DELETE /workers/:workerId", workerId |-> pth[2]]
          [] method = "DELETE" /\ pth = WorkersPath ->
                [handler |-> "DELETE /workers", workerId |-> ""]
          [] OTHER -> [handler |-> "none", workerId |-> ""]

\* Mutant of Upsert: the body is merged into the entry already there.
UpsertMerge(w, id, body) ==
    [k \in DOMAIN w \cup {id} |->
        IF k # id THEN w[k]
        ELSE IF id \notin DOMAIN w THEN body
        ELSE [f \in DOMAIN w[id] \cup DOMAIN body |->
                 IF f \in DOMAIN body THEN body[f] ELSE w[id][f]]]

\* Mutant of Upsert: the entries under other names are lost.
UpsertAlone(w, id, body) == [k \in {id} |-> body]

\* workers[req.params.workerId] = req.body
Upsert(w, id, body) ==
    [k \in DOMAIN w \cup {id} |-> IF k = id THEN body ELSE w[k]]

\* Mutant of Remove: the delete drops the whole mapping.
RemoveEverything(w, id) == EmptyRegistry

\* Mutant of Remove: the entries under the other names are deleted.
RemoveOthers(w, id) == [k \in DOMAIN w \cap {id} |-> w[k]]

\* delete workers[req.params.workerId]
Remove(w, id) == [k \in DOMAIN w \ {id} |-> w[k]]

\* Mutant of ClearAll: the mapping is left as it is.
ClearNothing(w) == w

\* workers = {}
ClearAll(w) == EmptyRegistry

\* Mutant of jsonBodyParser: whatever the text, the handler is run.
ParserLenient(text) == [status |-> 200, body |-> text.value]

\* bodyParser.json(): a body that parses becomes req.body and the handler
\* is run; one that does not is answered 400 and the handler is not run.
jsonBodyParser(text) ==
    IF text.json THEN [status |-> 200, body |-> text.value]
    ELSE [status |-> 400, body |-> NoDef]

\* The server's answer to a request, and the mapping it leaves: res.json(..)
\* answers 200, a request no route matches is answered 404.
Handle(w, req) ==
    LET r == Route(req.method, req.path)
        parsed == jsonBodyParser(req.body)
    IN  CASE r.handler = "GET /workers" ->
                [workers |-> w, status |-> 200, body |-> RegistryVal(w)]
          [] r.handler = "POST /workers/:workerId" /\ parsed.status # 200 ->
                [workers |-> w, status |-> parsed.status, body |-> NoVal]
          [] r.handler = "POST /workers/:workerId" ->
                [workers |-> Upsert(w, r.workerId, parsed.body),
                 status |-> 200, body |-> NoVal]
          [] r.handler = "DELETE /workers/:workerId" ->
                [workers |-> Remove(w, r.workerId), status |-> 200, body |-> NoVal]
          [] r.handler = "DELETE /workers" ->
                [workers |-> ClearAll(w), status |-> 200, body |-> NoVal]
          [] OTHER -> [workers |-> w, status |-> 404, body |-> NoVal]

\* ------------------------------------------------------------------- fetch
\* fetch(url, {method, body}) from any process.  With a registry listening
\* the request is handled by it.  With none, the connection is refused; a
\* connection made to the socket of a probe is reset when the probe closes
\* it.  `fault` is a failure of the transport itself ("none": no failure),
\* named by the code of its cause ("" when the error has no cause.code);
\* `handled` tells whether the server handled the request before it.
Fetch(req, fault, handled) ==
    LET o == CHOOSE q \in Listeners : TRUE
        h == Handle(workers[o], req)
    IN  IF Listeners # {} /\ fault = "none"
        THEN [err |-> "none", status |-> h.status, body |-> h.body,
              workers |-> [workers EXCEPT ![o] = h.workers]]
        ELSE IF Listeners # {}
        THEN [err |-> fault, status |-> 0, body |-> NoVal,
              workers |-> IF handled THEN [workers EXCEPT ![o] = h.workers]
                          ELSE workers]
        ELSE [err |-> IF fault # "none" THEN fault
                      ELSE IF \E q \in Procs : sock[q] = "probe"
                      THEN "ECONNRESET" ELSE "ECONNREFUSED",
              status |-> 0, body |-> NoVal, workers |-> workers]

\* Mutants of RegistryNotRunning: only a refused connection counts; every
\* failure counts.
RefusedOnly(err) == err = "ECONNREFUSED"
AnyFailure(err) == TRUE

\* ["ECONNRESET", "ECONNREFUSED"].includes(e.cause?.code || "___")
RegistryNotRunning(err) ==
    (IF err = "" THEN "___" ELSE err) \in {"ECONNRESET", "ECONNREFUSED"}

\* ----------------------------------------------------------- registerWorker
\* registerWorker(name, definition) begins: await startWorkerRegistry()
RegisterBegin(p, name, definition) ==
    /\ pc[p] = "idle"
    /\ pc' = [pc EXCEPT ![p] = "probe"]
    /\ call' = [call EXCEPT ![p] =
                   [op |-> "register", name |-> name, def |-> definition]]
    /\ last' = NoLast
    /\ UNCHANGED <<server, terminator, workers, sock, avail>>

\* try { return await fetch(.., {method: "POST", body}) } catch (e) { log }
RegisterFetch(p, fault, handled) ==
    /\ pc[p] = "fetch"
    /\ LET f == Fetch([method |-> "POST", path |-> WorkerPath(call[p].name),
                       body |-> Text(JSONstringify(call[p].def))],
                      fault, handled)
       IN  /\ workers' = f.workers
           /\ last' = Settled(p, call[p],
                  IF f.err = "none"
                  THEN Ending("returned", "none", "none", f.status, ResponseVal)
                  ELSE IF ~RegistryNotRunning(f.err)
                  THEN Ending("returned", f.err, "error", 0, UndefinedVal)
                  ELSE Ending("returned", f.err, "debug", 0, UndefinedVal))
    /\ pc' = [pc EXCEPT ![p] = "idle"]
    /\ call' = [call EXCEPT ![p] = NoCall]
    /\ UNCHANGED <<server, terminator, sock, avail>>

\* --------------------------------------------------------- unregisterWorker
UnregisterWorker(p, name, fault, handled) ==
    /\ pc[p] = "idle"
    /\ LET c == [NoCall EXCEPT !.op = "unregister", !.name = name]
           f == Fetch([method |-> "DELETE", path |-> WorkerPath(name),
                       body |-> NoBody], fault, handled)
       IN  /\ workers' = f.workers
           /\ last' = Settled(p, c,
                  IF f.err = "none"
                  THEN Ending("returned", "none", "none", f.status, UndefinedVal)
                  ELSE IF ~RegistryNotRunning(f.err)
                  THEN Ending("threw", f.err, "none", 0, NoVal)
                  ELSE Ending("returned", f.err, "none", 0, UndefinedVal))
    /\ UNCHANGED <<server, terminator, sock, pc, call, avail>>

\* ----------------------------------------------------- getRegisteredWorkers
\* Mutant of ListResult: every failure of the fetch is swallowed.
ListSwallowsAll(fault) ==
    LET f == Fetch([method |-> "GET", path |-> WorkersPath, body |-> NoBody],
                   fault, FALSE)
    IN  IF f.err = "none"
        THEN Ending("returned", "none", "none", f.status, f.body)
        ELSE Ending("returned", f.err, "none", 0, UndefinedVal)

\* What getRegisteredWorkers() settles with: the body of GET /workers,
\* undefined when the registry is not running, or the error thrown.
ListResult(fault) ==
    LET f == Fetch([method |-> "GET", path |-> WorkersPath, body |-> NoBody],
                   fault, FALSE)
    IN  IF f.err = "none"
        THEN Ending("returned", "none", "none", f.status, f.body)
        ELSE IF ~RegistryNotRunning(f.err)
        THEN Ending("threw", f.err, "none", 0, NoVal)
        ELSE Ending("returned", f.err, "none", 0, UndefinedVal)

\* Mutant of GetRegisteredWorkers: reading the registry empties it.
GetRegisteredWorkersDrains(p, fault) ==
    /\ pc[p] = "idle"
    /\ last' = Settled(p, [NoCall EXCEPT !.op = "list"], ListResult(fault))
    /\ workers' = [q \in Procs |-> EmptyRegistry]
    /\ UNCHANGED <<server, terminator, sock, pc, call, avail>>

GetRegisteredWorkers(p, fault) ==
    /\ pc[p] = "idle"
    /\ last' = Settled(p, [NoCall EXCEPT !.op = "list"], ListResult(fault))
    /\ UNCHANGED <<server, terminator, workers, sock, pc, call, avail>>

\* ------------------------------------------------ getBoundRegisteredWorkers
\* (services || []).map(b => b.service) and
\* (durableObjects || {bindings: []}).bindings.map(b => b.script_name)
BindingNames(bindings) == IF bindings.defined THEN bindings.names ELSE {}

\* Mutant of FilterBound: the durable-object bindings are not looked at.
FilterServicesOnly(workerDefinitions, services, durableObjects) ==
    LET defs == IF workerDefinitions.kind = "registry"
                THEN workerDefinitions.reg ELSE EmptyRegistry
    IN  [k \in {key \in DOMAIN defs : key \in BindingNames(services)}
            |-> defs[k]]

\* Mutant of FilterBound: every entry is kept.
FilterEverything(workerDefinitions, services, durableObjects) ==
    IF workerDefinitions.kind = "registry"
    THEN workerDefinitions.reg ELSE EmptyRegistry

\* Object.fromEntries(Object.entries(workerDefinitions || {}).filter(..))
FilterBound(workerDefinitions, services, durableObjects) ==
    LET serviceNames == BindingNames(services)
        durableObjectServices == BindingNames(durableObjects)
        defs == IF workerDefinitions.kind = "registry"
                THEN workerDefinitions.reg ELSE EmptyRegistry
    IN  [k \in {key \in DOMAIN defs :
                    key \in serviceNames \/ key \in durableObjectServices}
            |-> defs[k]]

GetBoundRegisteredWorkers(p, services, durableObjects, fault) ==
    /\ pc[p] = "idle"
    /\ LET r == ListResult(fault)
           c == [NoCall EXCEPT !.op = "bound"]
       IN  last' = [Settled(p, c,
                        IF r.outcome = "returned"
                        THEN [r EXCEPT !.val = RegistryVal(
                                 FilterBound(r.val, services, durableObjects))]
                        ELSE r)
                    EXCEPT !.services = services,
                           !.durableObjects = durableObjects]
    /\ UNCHANGED <<server, terminator, workers, sock, pc, call, avail>>

\* ------------------------------------------------------------ DELETE /workers
\* The clear-all request, sent as a bare HTTP request (no client function
\* wraps it).
ClearWorkers(p) ==
    /\ pc[p] = "idle"
    /\ LET f == Fetch([method |-> "DELETE", path |-> WorkersPath,
                       body |-> NoBody], "none", FALSE)
       IN  /\ workers' = f.workers
           /\ last' = Settled(p, [NoCall EXCEPT !.op = "clear"],
                  Ending(IF f.err = "none" THEN "returned" ELSE "threw",
                         f.err, "none", f.status, NoVal))
    /\ UNCHANGED <<server, terminator, sock, pc, call, avail>>

\* ------------------------------------------------ POST /workers/:workerId
\* A POST whose body is not JSON, sent as a bare HTTP request (registerWorker
\* always sends the text JSON.stringify made).
PostMalformed(p, name) ==
    /\ pc[p] = "idle"
    /\ LET f == Fetch([method |-> "POST", path |-> WorkerPath(name),
                       body |-> Malformed], "none", FALSE)
       IN  /\ workers' = f.workers
           /\ last' = Settled(p, [NoCall EXCEPT !.op = "postMalformed",
                                                !.name = name],
                  Ending(IF f.err = "none" THEN "returned" ELSE "threw",
                         f.err, "none", f.status, NoVal))
    /\ UNCHANGED <<server, terminator, sock, pc, call, avail>>

\* ------------------------------------------------- requests in flight
\* The HTTP request of a call c: op is "POST" (upsert of c.name with c.def),
\* "DELETE" (of c.name), "CLEAR" (DELETE /workers) or "GET" (GET /workers).
Request(c) ==
    CASE c.op = "POST" ->
            [method |-> "POST", path |-> WorkerPath(c.name),
             body |-> Text(JSONstringify(c.def))]
      [] c.op = "DELETE" ->
            [method |-> "DELETE", path |-> WorkerPath(c.name), body |-> NoBody]
      [] c.op = "CLEAR" ->
            [method |-> "DELETE", path |-> WorkersPath, body |-> NoBody]
      [] OTHER -> [method |-> "GET", path |-> WorkersPath, body |-> NoBody]

\* Process p sends a request and waits for the response; other processes
\* may send theirs before it is served.
Send(p, c) ==
    /\ pc[p] = "idle"
    /\ pc' = [pc EXCEPT ![p] = "sent"]
    /\ call' = [call EXCEPT ![p] = c]
    /\ last' = NoLast
    /\ UNCHANGED <<server, terminator, workers, sock, avail>>

\* The server's event loop takes p's request: the handler runs from start
\* to end (none of the four awaits anything), and p receives its answer.
Serve(p) ==
    /\ pc[p] = "sent"
    /\ LET f == Fetch(Request(call[p]), "none", FALSE)
       IN  /\ workers' = f.workers
           /\ last' = Settled(p, call[p],
                  Ending(IF f.err = "none" THEN "returned" ELSE "threw",
                         f.err, "none", f.status, f.body))
    /\ pc' = [pc EXCEPT ![p] = "idle"]
    /\ call' = [call EXCEPT ![p] = NoCall]
    /\ UNCHANGED <<server, terminator, sock, avail>>

\* ----------------------------------------------------------------- history
AllIdle == \A q \in Procs : pc[q] = "idle"

\* The episode after process p begins a call of function op: the call
\* joins the startWorkerRegistry calls in progress, or follows the call
\* that has just returned (a startWorkerRegistry after one, a registerWorker
\* after one of the same name and another definition), or begins a new
\* episode.
TrailBegin(p, op) ==
    IF ~AllIdle
    THEN IF op = "start" /\ trail.op = "start" /\ trail.procs # {}
         THEN [trail EXCEPT !.procs = @ \cup {p}, !.conc = TRUE]
         ELSE NoTrail
    ELSE IF /\ trail.op = op /\ trail.procs # {}
            /\ trail.done = 0 /\ ~trail.conc
            /\ last.op = op /\ last.outcome = "returned"
            /\ op = "register" => /\ last.name = call'[p].name
                                  /\ last.def # call'[p].def
         THEN [trail EXCEPT !.procs = @ \cup {p}, !.done = 1]
         ELSE [procs |-> {p}, op |-> op, free |-> Listeners = {},
               done |-> 0, conc |-> FALSE,
               owner |-> IF trail.procs = {} /\ trail.owner = p THEN p ELSE 0,
               held |-> IF trail.procs = {} /\ trail.owner = p
                        THEN trail.held ELSE 0]

\* kind "start"/"register": p begins a call; "step": p's call goes on;
\* "stop": p calls stopWorkerRegistry, which ends the episode, as does
\* anything else ("other").
Track(p, kind, A) ==
    /\ A
    /\ trail' = CASE kind \in {"start", "register"} -> TrailBegin(p, kind)
                  [] kind = "step" /\ p \in trail.procs -> trail
                  [] kind = "stop" /\ sock[p] = "server" /\ AllIdle ->
                        [NoTrail EXCEPT !.owner = p,
                                        !.held = Cardinality(DOMAIN workers[p])]
                  [] OTHER -> NoTrail
    /\ UNCHANGED rt

\* -------------------------------------------------------------------- retry
\* Mutant of ExitConditionHolds: no failure ends the retrying.
ExitNever(exitCondition, e) == FALSE

\* exitCondition?.(e)
ExitConditionHolds(exitCondition, e) ==
    exitCondition.defined /\ e \in exitCondition.of

\* while (times > 0) { try { return await fn() } catch (e) { error = e;
\*   times--; if (exitCondition?.(e)) break } }      -- fn settles with o
RetryInvoke(o) ==
    /\ rt.pc = "while" /\ rt.times > 0
    /\ rt' = IF o \in Values
             THEN [rt EXCEPT !.seen = Append(@, o), !.pc = "done",
                             !.result = [kind |-> "returned", value |-> o]]
             ELSE [rt EXCEPT !.seen = Append(@, o),
                             !.error = o,
                             !.times = @ - 1,
                             !.pc = IF ExitConditionHolds(rt.exitCondition, o)
                                    THEN "break" ELSE "while"]
    /\ UNCHANGED <<prog, trail>>

\* throw error, after the loop
RetryThrow ==
    /\ \/ rt.pc = "while" /\ ~(rt.times > 0)
       \/ rt.pc = "break"
    /\ rt' = [rt EXCEPT !.pc = "done",
                        !.result = [kind |-> "threw", value |-> rt.error]]
    /\ UNCHANGED <<prog, trail>>

\* ---------------------------------------------------------- specifications
\* The inputs of the lifecycle specification: one worker, one definition.
LifeNames == {<<"a">>}
LifeDefs == {[port |-> "8787", mode |-> "local"]}

Next ==
    \E p \in Procs :
        \/ Track(p, "start", StartBegin(p))
        \/ Track(p, "step", ProbeListen(p, "none"))
        \/ Track(p, "step", ProbeListening(p))
        \/ Track(p, "step", StartCheck(p))
        \/ Track(p, "step", ServerListen(p, "none"))
        \/ Track(p, "stop", StopWorkerRegistry(p))
        \/ Track(p, "other", Exit(p))
        \/ \E n \in LifeNames, d \in LifeDefs :
              Track(p, "register", RegisterBegin(p, n, d))
        \/ Track(p, "step", RegisterFetch(p, "none", FALSE))
        \/ \E n \in LifeNames :
              Track(p, "other", UnregisterWorker(p, n, "none", FALSE))
        \/ Track(p, "other", GetRegisteredWorkers(p, "none"))

Spec == Init /\ [][Next]_vars

\* The registry's contents: one process, every name.
Client == CHOOSE p \in Procs : \A q \in Procs : p <= q
DataDefs == {d \in WorkerDefinition : d.mode = "local"}

\* The steps of a call of the client after it began.
ClientSteps ==
    \/ Track(Client, "step", ProbeListen(Client, "none"))
    \/ Track(Client, "step", ProbeListening(Client))
    \/ Track(Client, "step", StartCheck(Client))
    \/ Track(Client, "step", ServerListen(Client, "none"))
    \/ Track(Client, "step", RegisterFetch(Client, "none", FALSE))

NextData ==
    \/ \E n \in Names, d \in DataDefs :
          Track(Client, "register", RegisterBegin(Client, n, d))
    \/ ClientSteps
    \/ \E n \in Names :
          Track(Client, "other", UnregisterWorker(Client, n, "none", FALSE))
    \/ Track(Client, "other", GetRegisteredWorkers(Client, "none"))
    \/ Track(Client, "other", ClearWorkers(Client))

SpecData == Init /\ [][NextData]_vars

\* A dev session: the client is the process that starts and stops the
\* registry; every other process is a worker that registers itself,
\* unregisters and exits.
Workers == Procs \ {Client}

NextSession ==
    \/ Track(Client, "start", StartBegin(Client))
    \/ Track(Client, "stop", StopWorkerRegistry(Client))
    \/ Track(Client, "other", GetRegisteredWorkers(Client, "none"))
    \/ \E p \in Procs :
          \/ Track(p, "step", ProbeListen(p, "none"))
          \/ Track(p, "step", ProbeListening(p))
          \/ Track(p, "step", StartCheck(p))
          \/ Track(p, "step", ServerListen(p, "none"))
          \/ \E n \in LifeNames, d \in LifeDefs :
                Track(p, "register", RegisterBegin(p, n, d))
          \/ Track(p, "step", RegisterFetch(p, "none", FALSE))
          \/ \E n \in LifeNames :
                Track(p, "other", UnregisterWorker(p, n, "none", FALSE))
    \/ \E p \in Workers : Track(p, "other", Exit(p))

SpecSession == Init /\ [][NextSession]_vars

\* Discovery: one process registering under plain names, asking for the
\* workers it is bound to, and sending a body that is not JSON.
KeyNames == {<<k>> : k \in Keys}
Bindings ==
    {NoBindings} \cup {[defined |-> TRUE, names |-> ns] : ns \in SUBSET Keys}

NextBound ==
    \/ \E n \in KeyNames, d \in DataDefs :
          Track(Client, "register", RegisterBegin(Client, n, d))
    \/ ClientSteps
    \/ \E n \in KeyNames :
          Track(Client, "other", UnregisterWorker(Client, n, "none", FALSE))
    \/ \E sv \in Bindings, dob \in Bindings :
          Track(Client, "other",
                GetBoundRegisteredWorkers(Client, sv, dob, "none"))
    \/ \E n \in KeyNames : Track(Client, "other", PostMalformed(Client, n))

SpecBound == Init /\ [][NextBound]_vars

\* Concurrent requests: the client brings the registry up, and every
\* process sends requests that are in flight together.
ConcNames == {<<"a">>, <<"b">>}
Requests ==
    {[op |-> "POST", name |-> n, def |-> d] : n \in ConcNames, d \in DataDefs}
    \cup {[op |-> "DELETE", name |-> n, def |-> NoDef] : n \in ConcNames}
    \cup {[op |-> o, name |-> NoName, def |-> NoDef] : o \in {"CLEAR", "GET"}}

NextConc ==
    \/ Track(Client, "start", StartBegin(Client))
    \/ Track(Client, "step", ProbeListen(Client, "none"))
    \/ Track(Client, "step", ProbeListening(Client))
    \/ Track(Client, "step", StartCheck(Client))
    \/ Track(Client, "step", ServerListen(Client, "none"))
    \/ \E p \in Procs :
          \/ \E c \in Requests : Track(p, "other", Send(p, c))
          \/ Track(p, "other", Serve(p))

SpecConc == Init /\ [][NextConc]_vars

\* One process with failures of the environment: a bind that fails with an
\* error other than EADDRINUSE, a fetch that fails in transit.
BindErrors == {"none", "EACCES"}
FetchFaults == {"none", "ECONNRESET", "ECONNREFUSED", "UND_ERR_SOCKET", ""}
FaultBindings ==
    {NoBindings} \cup
    {[defined |-> TRUE, names |-> ns] : ns \in {{}, {"a"}, {"b"}}}

NextFault ==
    \/ Track(Client, "start", StartBegin(Client))
    \/ \E e \in BindErrors : Track(Client, "step", ProbeListen(Client, e))
    \/ Track(Client, "step", ProbeListening(Client))
    \/ Track(Client, "step", StartCheck(Client))
    \/ \E e \in BindErrors : Track(Client, "step", ServerListen(Client, e))
    \/ Track(Client, "stop", StopWorkerRegistry(Client))
    \/ \E n \in LifeNames, d \in LifeDefs :
          Track(Client, "register", RegisterBegin(Client, n, d))
    \/ \E f \in FetchFaults, h \in BOOLEAN :
          Track(Client, "step", RegisterFetch(Client, f, h))
    \/ \E n \in LifeNames, f \in FetchFaults, h \in BOOLEAN :
          Track(Client, "other", UnregisterWorker(Client, n, f, h))
    \/ \E f \in FetchFaults :
          Track(Client, "other", GetRegisteredWorkers(Client, f))
    \/ \E sv \in FaultBindings, dob \in FaultBindings, f \in FetchFaults :
          Track(Client, "other",
                GetBoundRegisteredWorkers(Client, sv, dob, f))

SpecFault == Init /\ [][NextFault]_vars

\* retry, for every `times` from 0 to MaxTimes, every exitCondition and
\* every way fn settles at each invocation.
InitRetry ==
    /\ InitRegistry
    /\ rt \in {RetryCall(t, x) : t \in 0..MaxTimes, x \in ExitConditions}

NextRetry ==
    \/ \E o \in Values \cup Errors : RetryInvoke(o)
    \/ RetryThrow

SpecRetry == InitRetry /\ [][NextRetry]_vars

\* ------------------------------------------------------------------ claims
Registries == {q \in Procs : server[q]}

\* Two startWorkerRegistry calls have run in succession, the second begun
\* after the first returned, with nothing else in between or meanwhile.
TwoStartsDone ==
    /\ AllIdle
    /\ trail.op = "start" /\ trail.done = 1 /\ ~trail.conc
    /\ last.op = "start"

\* C1: after two startWorkerRegistry calls in succession, in one process or
\* in two, exactly one listener is live on the registry port, the second
\* call has returned without throwing, and one registry mapping exists.
C1_TwoStartsOneListener ==
    TwoStartsDone =>
        /\ Cardinality(Listeners) = 1
        /\ last.outcome = "returned"
        /\ Cardinality(Registries) = 1

\* Several processes have run startWorkerRegistry concurrently, the first
\* call begun with no registry running, and every call has settled, with
\* nothing else in between or meanwhile.
RaceDone ==
    /\ AllIdle
    /\ trail.op = "start" /\ trail.conc /\ trail.free
    /\ Cardinality(trail.procs) >= 2
    /\ last.op = "start"

\* C2: when processes race to start the registry with none running, there
\* are never two live registries, and once all have settled exactly one
\* process owns the listening server and no call has thrown.
C2_RaceOneOwner ==
    /\ Cardinality(Listeners) <= 1
    /\ RaceDone => /\ Cardinality(Listeners) = 1
                   /\ last.outcome = "returned"

\* A registerWorker call, begun while no registry was listening and every
\* process was idle, has returned, and no other process has taken a step
\* since it began.
RegisterAloneDone ==
    /\ AllIdle
    /\ trail.op = "register" /\ trail.free /\ trail.done = 0
    /\ last.op = "register" /\ last.outcome = "returned"

\* The mapping reg is {name: d}, read field by field.
HoldsOnly(reg, name, d) ==
    /\ Len(name) = 1
    /\ DOMAIN reg = {name[1]}
    /\ SameFields(reg[name[1]], d)

\* What getRegisteredWorkers() would return now.
Listed == ListResult("none")

\* C4: from no registry running, registerWorker(n, d) then
\* getRegisteredWorkers() returns {n: d}; a following unregisterWorker(n)
\* then getRegisteredWorkers() returns the empty mapping.
C4_RegisterListUnregisterList ==
    [][ /\ RegisterAloneDone' =>
              /\ Listed'.val.kind = "registry"
              /\ HoldsOnly(Listed'.val.reg, last'.name, last'.def)
        /\ ( /\ RegisterAloneDone
             /\ last'.op = "unregister"
             /\ last'.proc = last.proc /\ last'.name = last.name )
           => Listed'.val = RegistryVal(EmptyRegistry) ]_vars

\* C5: a registerWorker call made while no registry is live starts one
\* before registering: when the call returns a registry is listening and
\* holds the registered entry.
C5_RegisterStartsServer ==
    RegisterAloneDone =>
        \E o \in Listeners :
            /\ Len(last.name) = 1
            /\ last.name[1] \in DOMAIN workers[o]
            /\ SameFields(workers[o][last.name[1]], last.def)

\* A name that is one non-empty part: it holds no "/".
IsSegment(name) == Len(name) = 1 /\ name[1] # ""

\* The mapping reg has an entry under name, equal to d field by field.
HoldsEntry(reg, name, d) ==
    /\ Len(name) = 1
    /\ name[1] \in DOMAIN reg
    /\ SameFields(reg[name[1]], d)

\* registerWorker(n, d2) has returned, called right after registerWorker(n,
\* d1) returned, d1 # d2, against a listening registry.
RegisterTwiceDone ==
    /\ AllIdle
    /\ trail.op = "register" /\ trail.done = 1
    /\ last.op = "register" /\ last.status # 0
    /\ Listeners # {}

AtomicStep(op) == AllIdle /\ AllIdle' /\ last'.op = op

Present(reg, name) == Len(name) = 1 /\ name[1] \in DOMAIN reg

C7_ClearEmpties ==
    (last.op = "clear" /\ last.before >= 1) =>
        /\ last.status = 200
        /\ Listed.outcome = "returned"
        /\ Listed.val = RegistryVal(EmptyRegistry)

C7_Witness ==
    /\ last.op = "clear" /\ last.before >= 2
    /\ Listed.val = RegistryVal(EmptyRegistry)

\* C8: getBoundRegisteredWorkers returns exactly the registry entries named
\* by a declared service binding or a declared durable-object script_name,
\* each with its definition unchanged.
C8_BoundExactly ==
    (last.op = "bound" /\ last.outcome = "returned" /\ Listeners # {}) =>
        LET declared ==
                (IF last.services.defined THEN last.services.names ELSE {})
                \cup (IF last.durableObjects.defined
                      THEN last.durableObjects.names ELSE {})
        IN  /\ last.val.kind = "registry"
            /\ DOMAIN last.val.reg = DOMAIN LiveRegistry \cap declared
            /\ \A k \in DOMAIN last.val.reg : last.val.reg[k] = LiveRegistry[k]

\* Registry {a, b, c}, service b, durable-object script c: exactly {b, c}.
C8_Witness ==
    /\ last.op = "bound" /\ last.outcome = "returned"
    /\ DOMAIN LiveRegistry = {"a", "b", "c"}
    /\ last.services = [defined |-> TRUE, names |-> {"b"}]
    /\ last.durableObjects = [defined |-> TRUE, names |-> {"c"}]
    /\ DOMAIN last.val.reg = {"b", "c"}

\* The severity registerWorker logs a failed fetch at.
Severity(err) ==
    CASE err = "none" -> "none"
      [] err \in {"ECONNRESET", "ECONNREFUSED"} -> "debug"
      [] OTHER -> "error"

\* C9 (as claimed): registerWorker never aborts its caller: whatever
\* fails, it logs (debug for reset/refused, error otherwise) and returns.
C9_RegisterNeverAborts ==
    last.op = "register" =>
        /\ last.outcome = "returned"
        /\ last.log = Severity(last.err)

\* C9 (amended): registerWorker returns normally whenever its fetch fails,
\* logging reset/refused at debug and any other failure as an error; it
\* aborts its caller only when startWorkerRegistry, which it awaits outside
\* the try, fails on a bind error other than EADDRINUSE.
C9_RegisterSwallowsFetchFailure ==
    last.op = "register" =>
        IF last.outcome = "returned"
        THEN last.log = Severity(last.err)
        ELSE last.err \in BindErrors \ {"none"}

C9_Witness ==
    /\ last.op = "register" /\ last.outcome = "returned"
    /\ last.err = "UND_ERR_SOCKET" /\ last.log = "error"

\* C10: unregisterWorker returns normally on a connection-reset or
\* connection-refused failure and throws every other failure to its caller.
C10_UnregisterPropagates ==
    last.op = "unregister" =>
        /\ last.err \in {"none", "ECONNRESET", "ECONNREFUSED"}
              => last.outcome = "returned"
        /\ last.err \notin {"none", "ECONNRESET", "ECONNREFUSED"}
              => last.outcome = "threw"

C10_Witness ==
    /\ last.op = "unregister" /\ last.outcome = "threw"
    /\ last.err \in {"UND_ERR_SOCKET", ""}

\* The failures that mean "the registry is not running".
Unreachable == {"ECONNRESET", "ECONNREFUSED"}

\* C11: getRegisteredWorkers returns the whole current mapping when the
\* registry answers, returns undefined when the request fails with a reset or
\* refused connection, and throws every other failure to its caller.
C11_ListContract ==
    last.op = "list" =>
        CASE last.err = "none" ->
                /\ Listeners # {}
                /\ last.outcome = "returned"
                /\ last.val = RegistryVal(LiveRegistry)
          [] last.err \in Unreachable ->
                /\ last.outcome = "returned"
                /\ last.val = UndefinedVal
          [] OTHER ->
                /\ last.outcome = "threw"
                /\ last.val = NoVal

\* A list that failed in transit with a registry holding an entry: thrown.
C11_Witness ==
    /\ last.op = "list" /\ last.outcome = "threw"
    /\ last.err = "UND_ERR_SOCKET"
    /\ DOMAIN LiveRegistry # {}

\* The names a getBoundRegisteredWorkers call declared.
Declared(l) ==
    (IF l.services.defined THEN l.services.names ELSE {})
    \cup (IF l.durableObjects.defined THEN l.durableObjects.names ELSE {})

\* C12: getBoundRegisteredWorkers returns the empty mapping, neither
\* undefined nor an error, when the registry is unreachable (reset/refused)
\* or when no registered name is among the declared bindings, services and
\* durableObjects both undefined included.
C12_BoundEmpty ==
    ( /\ last.op = "bound"
      /\ \/ last.err \in Unreachable
         \/ last.err = "none" /\ DOMAIN LiveRegistry \cap Declared(last) = {} )
    => /\ last.outcome = "returned"
       /\ last.val = RegistryVal(EmptyRegistry)

\* Both undefined, against a registry that holds an entry.
C12_Witness ==
    /\ last.op = "bound" /\ last.err = "none"
    /\ ~last.services.defined /\ ~last.durableObjects.defined
    /\ DOMAIN LiveRegistry # {}
    /\ last.val = RegistryVal(EmptyRegistry)

\* Process p calls stopWorkerRegistry while it owns the listening server.
OwnerStops(p) == sock[p] = "server" /\ StopWorkerRegistry(p)

\* A startWorkerRegistry call of the process that had just stopped the
\* registry it owned has returned, and nothing else has happened meanwhile.
RestartDone ==
    /\ AllIdle
    /\ trail.op = "start" /\ trail.owner # 0 /\ trail.done = 0 /\ ~trail.conc
    /\ last.op = "start" /\ last.proc = trail.owner

\* C13: when stopWorkerRegistry completes in the process that owns the
\* server, the listener is closed and that process's handle is null; a
\* server that starts listening afterwards has an empty registry, and the
\* startWorkerRegistry that follows the stop in that process brings one up,
\* from which getRegisteredWorkers returns no entry registered before.
C13_StopThenFreshStart ==
    /\ [][ \A p \in Procs :
              /\ OwnerStops(p) =>
                    /\ last'.outcome = "returned"
                    /\ Listeners' = {}
                    /\ ~server'[p]
              /\ (sock[p] # "server" /\ sock'[p] = "server") =>
                    workers'[p] = EmptyRegistry ]_vars
    /\ [](RestartDone =>
              /\ Listeners = {trail.owner}
              /\ server[trail.owner]
              /\ Listed.val = RegistryVal(EmptyRegistry))

\* The server stopped held an entry; the one started after it holds none.
C13_Witness ==
    /\ RestartDone
    /\ trail.held >= 1
    /\ Listeners = {trail.owner}
    /\ Listed.val = RegistryVal(EmptyRegistry)

\* C14: a POST /workers/{name} whose body is malformed JSON is answered
\* with a client error (4xx), leaves every entry of the registry as it was,
\* the one under that name included, and leaves the server listening and
\* answering the next request.
C14_MalformedPostRejected ==
    [][ (AtomicStep("postMalformed") /\ Listeners # {}) =>
            /\ last'.outcome = "returned"
            /\ last'.status >= 400 /\ last'.status < 500
            /\ workers' = workers
            /\ Listeners' = Listeners /\ server' = server
            /\ Listed'.outcome = "returned"
            /\ Listed'.val = RegistryVal(LiveRegistry) ]_vars

\* A malformed POST to a name that has an entry, which is still there.
C14_Witness ==
    /\ last.op = "postMalformed" /\ last.status = 400
    /\ Present(LiveRegistry, last.name)
    /\ "port" \in DOMAIN LiveRegistry[last.name[1]]
    /\ last.before >= 2

\* C15: when a bind of the registry port fails with an error other than
\* EADDRINUSE, at the probe or at the server's own listen, the call fails
\* and that error is thrown to the caller of startWorkerRegistry.
C15_BindErrorPropagates ==
    (last.op \in {"start", "register"} /\ last.err \in BindErrors \ {"none"})
        => last.outcome = "threw"

\* Mapping new is mapping old outside the names in `but`.
SameExcept(old, new, but) ==
    \A k \in (DOMAIN old \cup DOMAIN new) \ but :
        k \in DOMAIN old /\ k \in DOMAIN new /\ new[k] = old[k]

\* What one request c, run alone on mapping old, leaves (new) and answers
\* (val): the sequential meaning of the four requests.
Sequential(c, old, new, val) ==
    CASE c.op = "POST" ->
            /\ c.name[1] \in DOMAIN new
            /\ SameFields(new[c.name[1]], c.def)
            /\ SameExcept(old, new, {c.name[1]})
      [] c.op = "DELETE" ->
            /\ c.name[1] \notin DOMAIN new
            /\ SameExcept(old, new, {c.name[1]})
      [] c.op = "CLEAR" -> DOMAIN new = {}
      [] OTHER -> new = old /\ val = RegistryVal(old)

\* C16: requests that are in flight together are served one at a time:
\* each step that serves one takes the registry from what the requests
\* served before it left to what that request alone makes of it, a list is
\* answered with exactly that mapping, and no other step touches the
\* mapping; so the registry and every answer are those of the requests run
\* one after another in the order they were served.
C16_RequestsSerialised ==
    [][ /\ \A p \in Procs :
              (pc[p] = "sent" /\ pc'[p] = "idle" /\ Listeners # {}) =>
                  /\ last'.proc = p /\ last'.status = 200
                  /\ Sequential(call[p], LiveRegistry, LiveRegistry',
                                last'.val)
        /\ (\A p \in Procs : pc[p] = "sent" => pc'[p] = "sent") =>
              (Listeners # {} => LiveRegistry' = LiveRegistry) ]_vars

\* An upsert of a name has been served while another process's delete of
\* the same name, and a third request or not, were still in flight.
C16_Witness ==
    /\ last.op = "POST" /\ last.status = 200
    /\ HoldsEntry(LiveRegistry, last.name, last.def)
    /\ \E q \in Procs \ {last.proc} :
          /\ pc[q] = "sent" /\ call[q].op = "DELETE"
          /\ call[q].name = last.name

\* C17: whenever the listening socket of a process's registry server
\* closes, by stopWorkerRegistry or any other way, that process's handle is
\* null afterwards; so the startWorkerRegistry it runs next, alone and with
\* the port free, ends with that process listening again.
C17_CloseResetsHandle ==
    /\ [][ \A p \in Procs :
              (sock[p] = "server" /\ sock'[p] # "server") => ~server'[p] ]_vars
    /\ [](RestartDone =>
              /\ sock[trail.owner] = "server"
              /\ terminator[trail.owner] = "listening")

\* The client listens again after its stop, next to a worker process that
\* lost a bind earlier.
C17_Witness ==
    /\ RestartDone
    /\ sock[trail.owner] = "server"
    /\ \E q \in Procs \ {trail.owner} : server[q] /\ pc[q] = "idle"

\* C18: an entry of the registry stays, with the definition last
\* registered, through every step that is not a delete of its name, a
\* registration of its name (which gives it the new definition), or the end
\* of the server (its owner's stopWorkerRegistry or exit): neither a list,
\* nor a start, nor the exit of any other process removes or alters it.
C18_NoExpiry ==
    [][ \A k \in DOMAIN LiveRegistry :
          \/ /\ Listeners' = Listeners
             /\ k \in DOMAIN LiveRegistry'
             /\ LiveRegistry'[k] = LiveRegistry[k]
          \/ \E p \in Procs : UnregisterWorker(p, <<k>>, "none", FALSE)
          \/ \E p \in Procs :
                /\ call[p].name = <<k>> /\ RegisterFetch(p, "none", FALSE)
                /\ HoldsEntry(LiveRegistry', <<k>>, call[p].def)
          \/ \E o \in Listeners : StopWorkerRegistry(o) \/ Exit(o) ]_vars

\* A list has returned an entry that is still there, while a process other
\* than the owner and the reader is gone or has never run.
C18_Witness ==
    /\ last.op = "list" /\ last.val.kind = "registry"
    /\ DOMAIN last.val.reg # {}
    /\ LiveRegistry = last.val.reg
    /\ \E q \in Procs \ Listeners :
          /\ terminator[q] = "undefined" /\ ~server[q] /\ pc[q] = "idle"

\* C19: GET /workers, and so getRegisteredWorkers and
\* getBoundRegisteredWorkers, whether they succeed or fail, leave every
\* registry mapping and the lifecycle state (handles, terminators, sockets)
\* as they were: no entry is added, removed or altered, no server is
\* started or stopped.
C19_ReadsChangeNothing ==
    [][ (AtomicStep("list") \/ AtomicStep("bound")) =>
            UNCHANGED <<workers, server, terminator, sock>> ]_vars

\* A list and a bound query against a registry that holds an entry.
C19_Witness ==
    /\ last.op \in {"list", "bound"} /\ last.err = "none"
    /\ last.before >= 1
    /\ DOMAIN LiveRegistry # {}

\* C20: in every state, a process that is not inside a startWorkerRegistry
\* call has a non-null server handle only if it owns the listening registry
\* server; a process that lost the bind after passing the probe keeps none.
C20_HandleMeansOwner ==
    \A p \in Procs :
        (pc[p] \in {"idle", "fetch", "sent"} /\ server[p]) => sock[p] = "server"

\* The step in which the request of method m that the client's call sends
\* is handled: the fetch of registerWorker, or unregisterWorker.
HandledStep(m) ==
    IF m = "POST"
    THEN pc[Client] = "fetch" /\ pc'[Client] = "idle" /\ last'.op = "register"
    ELSE AtomicStep("unregister")

\* C21: a request handled by POST /workers/:workerId or by
\* DELETE /workers/:workerId changes only the entry under that workerId:
\* every other name is in the registry afterwards exactly when it was
\* before, with the same definition.
C21_OnlyNamedEntry ==
    [][ \A m \in {"POST", "DELETE"} :
          LET r == Route(m, WorkerPath(last'.name))
          IN  ( /\ HandledStep(m) /\ Listeners # {}
                /\ r.workerId # "" )
              => /\ last'.status = 200
                 /\ SameExcept(LiveRegistry, LiveRegistry', {r.workerId}) ]_vars

\* A delete has taken one entry out of three and left the other two.
C21_Witness ==
    /\ last.op = "unregister" /\ last.status = 200
    /\ last.before = 3
    /\ Cardinality(DOMAIN LiveRegistry) = 2
    /\ ~Present(LiveRegistry, last.name)

\* The invocations of fn so far, counted, and the last of them.
Invocations == Len(rt.seen)
LastSeen == rt.seen[Len(rt.seen)]

\* What the claim says of a call of retry in any state: fn is invoked at
\* most `times` times; every invocation before the last one failed with an
\* error the exitCondition is false of (so nothing is invoked after a
\* success or after such a failure); a call that returned returns what
\* the last invocation resolved to; a call that threw throws what the last
\* invocation rejected with.
RetryContract ==
    /\ Invocations <= rt.given
    /\ \A i \in 1..(Invocations - 1) :
          /\ rt.seen[i] \in Errors
          /\ ~(rt.exitCondition.defined /\ rt.seen[i] \in rt.exitCondition.of)
    /\ rt.result.kind = "returned" =>
          /\ Invocations >= 1 /\ LastSeen \in Values
          /\ rt.result.value = LastSeen
    /\ rt.result.kind = "threw" =>
          /\ Invocations >= 1 /\ LastSeen \in Errors
          /\ rt.result.value = LastSeen
          /\ \/ Invocations = rt.given
             \/ rt.exitCondition.defined /\ LastSeen \in rt.exitCondition.of

\* C22 (as claimed): for every `times`, retry keeps to that contract.
C22_RetryAnyTimes == RetryContract

\* C22 (amended): given times >= 1, retry invokes fn one call after
\* another at most `times` times, returns what the first invocation that
\* succeeds resolved to without invoking fn again, stops right after a
\* failure the exitCondition is true of, and when it gives up throws the
\* error of the latest failed invocation; given times of 0 it never
\* invokes fn and throws null.
C22_RetryContract ==
    IF rt.given >= 1 THEN RetryContract
    ELSE /\ Invocations = 0
         /\ rt.pc = "done" => rt.result = [kind |-> "threw", value |-> "null"]

\* Two failures, the second one the exitCondition is true of, with tries
\* left: thrown at once.
C22_Witness ==
    /\ rt.pc = "done" /\ rt.result = [kind |-> "threw", value |-> "e2"]
    /\ rt.given = MaxTimes /\ rt.seen = <<"e1", "e2">>
    /\ rt.exitCondition = [defined |-> TRUE, of |-> {"e2"}]
====
